---- MODULE Spec2Model ----
(***************************************************************************)
(* Model of install_autoops_agent.py: an interactive helper that reads a   *)
(* docker run command, patches it, writes it to autoops_docker_run.sh,     *)
(* transfers the script to a VM and executes it there.                     *)
(*                                                                         *)
(* Text is modelled character by character: a Python str is a sequence of  *)
(* one-character strings.  The key glyph U+1F511 of the log pattern is the *)
(* single element "U+1F511".  Regular expressions are modelled by         *)
(* operators that compute, for a start index, the end of the match the     *)
(* Python re engine finds there.                                           *)
(***************************************************************************)
EXTENDS Integers, Sequences, FiniteSets, TLC

(***************************************************************************)
(* Bounds of the model.                                                    *)
(***************************************************************************)
MaxLines == 2

MaxInvalid == 2

MaxFrags == 3

(***************************************************************************)
(* Literal texts of the source.                                            *)
(***************************************************************************)
PLACEHOLDER == <<"{", "{", "i", "d", ":", "a", "p", "i", "_", "k", "e", "y", "}", "}">>

DASH_E == <<"-", "e">>

ES_URL_EQ == <<"A", "U", "T", "O", "O", "P", "S", "_", "E", "S", "_", "U", "R", "L", "=">>

ES_URL_REPLACEMENT == <<"-", "e", " ", "A", "U", "T", "O", "O", "P", "S", "_", "E", "S", "_", "U", "R", "L", "=", "'", "h", "t", "t", "p", ":", "/", "/", "l", "o", "c", "a", "l", "h", "o", "s", "t", ":", "9", "2", "0", "0", "'">>

\* The template r'\1-e AUTOOPS_ES_URL=\'http://localhost:9200\' ' is a raw
\* string: it holds backslash-quote, an escape re.sub leaves alone, so the
\* inserted text holds the two backslashes.
ES_URL_INSERT == <<"-", "e", " ", "A", "U", "T", "O", "O", "P", "S", "_", "E", "S", "_", "U", "R", "L", "=", "\\", "'", "h", "t", "t", "p", ":", "/", "/", "l", "o", "c", "a", "l", "h", "o", "s", "t", ":", "9", "2", "0", "0", "\\", "'", " ">>

DOCKER == <<"d", "o", "c", "k", "e", "r">>

RUN == <<"r", "u", "n">>

NETWORK_FLAG == <<"-", "-", "n", "e", "t", "w", "o", "r", "k">>

NET_FLAG == <<"-", "-", "n", "e", "t">>

NETWORK_HOST == <<"-", "-", "n", "e", "t", "w", "o", "r", "k", " ", "h", "o", "s", "t">>

NETWORK_HOST_INSERT == <<"-", "-", "n", "e", "t", "w", "o", "r", "k", " ", "h", "o", "s", "t", " ">>

NAME_FLAG == <<"-", "-", "n", "a", "m", "e">>

API_KEY_MARK == <<"A", "P", "I", " ", "k", "e", "y", ":">>

EMOJI_API_KEY_MARK == <<"U+1F511", " ", "A", "P", "I", " ", "k", "e", "y", ":">>

\* The answers confirm_execution accepts (lines 75 and 77).
Y == <<"y">>

YES == <<"y", "e", "s">>

N == <<"n">>

NO == <<"n", "o">>

(***************************************************************************)
(* Sample texts the inputs are drawn from.                                 *)
(***************************************************************************)
LineBlank == <<" ">>

LinePlain == <<"d", "o", "c", "k", "e", "r", " ", "r", "u", "n", " ", "-", "-", "n", "a", "m", "e", " ", "a", " ", "i">>

LineKey == <<"d", "o", "c", "k", "e", "r", " ", "r", "u", "n", " ", "-", "e", " ", "K", "=", "{", "{", "i", "d", ":", "a", "p", "i", "_", "k", "e", "y", "}", "}", " ", "i">>

LineTwoKeys == <<"{", "{", "i", "d", ":", "a", "p", "i", "_", "k", "e", "y", "}", "}", " ", "{", "{", "i", "d", ":", "a", "p", "i", "_", "k", "e", "y", "}", "}">>

LineNested == <<"{", "{", "{", "{", "i", "d", ":", "a", "p", "i", "_", "k", "e", "y", "}", "}", ":", "a", "p", "i", "_", "k", "e", "y", "}", "}">>

LogGlyph == <<"U+1F511", " ", "A", "P", "I", " ", "k", "e", "y", ":", " ", "L", "1", "\n">>

LogPlain == <<"A", "P", "I", " ", "k", "e", "y", ":", "i", "d", "\n">>

LogBoth == <<"A", "P", "I", " ", "k", "e", "y", ":", " ", "L", "2", "\n", "U+1F511", " ", "A", "P", "I", " ", "k", "e", "y", ":", " ", "L", "1">>

LogNoKey == <<"A", "P", "I", " ", "k", "e", "y", ":", " ", "!">>

KeyE1 == <<"E", "1">>

KeyP1 == <<"P", "1">>

KeyId == <<"i", "d">>

AnsY == <<"y">>

AnsYes == <<" ", "Y", "E", "S", " ">>

AnsN == <<"n">>

AnsNo == <<"N", "o">>

AnsEmpty == <<>>

AnsMaybe == <<"m", "a", "y", "b", "e">>

AnsYy == <<"y", "y">>

FragDockerRun == <<"d", "o", "c", "k", "e", "r", " ", "r", "u", "n", " ">>

FragContainerRun == <<"s", "u", "d", "o", " ", "d", "o", "c", "k", "e", "r", " ", "c", "o", "n", "t", "a", "i", "n", "e", "r", " ", "r", "u", "n", " ">>

FragSingle == <<"-", "e", " ", "A", "U", "T", "O", "O", "P", "S", "_", "E", "S", "_", "U", "R", "L", "=", "'", "a", "'", " ">>

FragDouble == <<"-", "e", " ", "A", "U", "T", "O", "O", "P", "S", "_", "E", "S", "_", "U", "R", "L", "=", "\"", "b", "\"", " ">>

FragUnquoted == <<"-", "e", " ", "A", "U", "T", "O", "O", "P", "S", "_", "E", "S", "_", "U", "R", "L", "=", "c", " ">>

FragNetwork == <<"-", "-", "n", "e", "t", "w", "o", "r", "k", " ", "b", " ">>

FragNet == <<"-", "-", "n", "e", "t", " ", "b", " ">>

FragNetworkEq == <<"-", "-", "n", "e", "t", "w", "o", "r", "k", "=", "b", " ">>

FragKey == <<"{", "{", "i", "d", ":", "a", "p", "i", "_", "k", "e", "y", "}", "}", " ">>

FragImage == <<"i">>

UpperLetters == <<"A", "B", "C", "D", "E", "F", "G", "H", "I", "J", "K", "L", "M", "N", "O", "P", "Q", "R", "S", "T", "U", "V", "W", "X", "Y", "Z">>

LowerLetters == <<"a", "b", "c", "d", "e", "f", "g", "h", "i", "j", "k", "l", "m", "n", "o", "p", "q", "r", "s", "t", "u", "v", "w", "x", "y", "z">>

Digits == {"0", "1", "2", "3", "4", "5", "6", "7", "8", "9"}

\* The character class [A-Za-z0-9+/=_-] of the log patterns.
KeyChars == {UpperLetters[k] : k \in 1..26} \cup {LowerLetters[k] : k \in 1..26} \cup Digits \cup {"+", "/", "=", "_", "-"}

(***************************************************************************)
(* Python str and re primitives.                                           *)
(***************************************************************************)
\* \s of re and the characters str.strip() removes (the ASCII ones a TLA+
\* string can hold).
IsSpace(c) == c \in {" ", "\t", "\n", "\r", "\f"}

Min(S) == CHOOSE x \in S : \A y \in S : x <= y

Max(S) == CHOOSE x \in S : \A y \in S : x >= y

\* lit occurs in s at index i.
HasAt(s, i, lit) ==
    /\ i >= 1
    /\ i + Len(lit) - 1 <= Len(s)
    /\ \A k \in 1..Len(lit) : s[i + k - 1] = lit[k]

\* The index after the longest run of \s (resp. \S) that starts at i.
SpaceRunEnd(s, i) ==
    LET stops == {j \in i..Len(s) : ~IsSpace(s[j])}
    IN  IF stops = {} THEN Len(s) + 1 ELSE Min(stops)

NonSpaceRunEnd(s, i) ==
    LET stops == {j \in i..Len(s) : IsSpace(s[j])}
    IN  IF stops = {} THEN Len(s) + 1 ELSE Min(stops)

\* The first index >= i that holds c, 0 when there is none.
FindChar(s, i, c) ==
    LET hits == {j \in i..Len(s) : s[j] = c}
    IN  IF hits = {} THEN 0 ELSE Min(hits)

\* `lit in s`
Contains(s, lit) == \E i \in 1..Len(s) : HasAt(s, i, lit)

\* str.strip()
strip(s) ==
    LET keep == {j \in 1..Len(s) : ~IsSpace(s[j])}
    IN  IF keep = {} THEN <<>> ELSE SubSeq(s, Min(keep), Max(keep))

\* str.lower() on the ASCII letters
LowerChar(c) ==
    IF \E k \in 1..26 : UpperLetters[k] = c
    THEN LowerLetters[CHOOSE k \in 1..26 : UpperLetters[k] = c]
    ELSE c

lower(s) == [k \in 1..Len(s) |-> LowerChar(s[k])]

\* str.replace(old, new): the occurrences of old are found left to right,
\* each search resuming after the previous occurrence.
RECURSIVE ReplaceFrom(_, _, _, _)
ReplaceFrom(s, i, old, new) ==
    LET hits == {j \in i..Len(s) : HasAt(s, j, old)}
    IN  IF hits = {} THEN SubSeq(s, i, Len(s))
        ELSE LET h == Min(hits)
             IN  SubSeq(s, i, h - 1) \o new \o ReplaceFrom(s, h + Len(old), old, new)

\* A variant of replace that stops after the first occurrence, as
\* str.replace(old, new, 1) would.
replace_first(s, old, new) ==
    LET hits == {j \in 1..Len(s) : HasAt(s, j, old)}
    IN  IF hits = {} THEN s
        ELSE SubSeq(s, 1, Min(hits) - 1) \o new \o SubSeq(s, Min(hits) + Len(old), Len(s))

replace(s, old, new) == ReplaceFrom(s, 1, old, new)

\* '\n'.join(lines)
RECURSIVE join(_)
join(lines) ==
    IF lines = <<>> THEN <<>>
    ELSE IF Len(lines) = 1 THEN lines[1]
    ELSE lines[1] \o <<"\n">> \o join(Tail(lines))

(***************************************************************************)
(* The regular expressions.  MatchEnd(pat, s, i) is the last index of the  *)
(* match of pat that starts at index i of s, 0 when pat does not match     *)
(* there.  No pattern of the source matches the empty string.              *)
(***************************************************************************)
\* -e\s+AUTOOPS_ES_URL= : the index after the "=", 0 when it does not match.
EnvPrefixEnd(s, i) ==
    IF ~HasAt(s, i, DASH_E) THEN 0
    ELSE LET a == i + Len(DASH_E)
             b == SpaceRunEnd(s, a)
         IN  IF b > a /\ HasAt(s, b, ES_URL_EQ) THEN b + Len(ES_URL_EQ) ELSE 0

\* -e\s+AUTOOPS_ES_URL=q[^q]*q  for the quote character q
QuotedEnd(s, i, q) ==
    LET c == EnvPrefixEnd(s, i)
    IN  IF c = 0 \/ ~HasAt(s, c, <<q>>) THEN 0 ELSE FindChar(s, c + 1, q)

\* -e\s+AUTOOPS_ES_URL=\S+
UnquotedEnd(s, i) ==
    LET c == EnvPrefixEnd(s, i)
    IN  IF c = 0 THEN 0
        ELSE LET d == NonSpaceRunEnd(s, c) IN IF d > c THEN d - 1 ELSE 0

\* flag\s+\S+
FlagValueEnd(s, i, flag) ==
    IF ~HasAt(s, i, flag) THEN 0
    ELSE LET a == i + Len(flag)
             b == SpaceRunEnd(s, a)
             d == NonSpaceRunEnd(s, b)
         IN  IF b > a /\ d > b THEN d - 1 ELSE 0

\* (docker\s+run\s+)
DockerRunEnd(s, i) ==
    IF ~HasAt(s, i, DOCKER) THEN 0
    ELSE LET a == i + Len(DOCKER)
             b == SpaceRunEnd(s, a)
         IN  IF b > a /\ HasAt(s, b, RUN)
             THEN LET c == b + Len(RUN)
                      d == SpaceRunEnd(s, c)
                  IN  IF d > c THEN d - 1 ELSE 0
             ELSE 0

MatchEnd(pat, s, i) ==
    CASE pat = "single_quoted" -> QuotedEnd(s, i, "'")
      [] pat = "double_quoted" -> QuotedEnd(s, i, "\"")
      [] pat = "unquoted" -> UnquotedEnd(s, i)
      [] pat = "network" -> FlagValueEnd(s, i, NETWORK_FLAG)
      [] pat = "net" -> FlagValueEnd(s, i, NET_FLAG)
      [] pat = "docker_run" -> DockerRunEnd(s, i)

\* re.search(pat, s) finds a match
re_search(pat, s) == \E i \in 1..Len(s) : MatchEnd(pat, s, i) > 0

\* re.sub(pat, repl, s): every non-overlapping match, left to right, is
\* replaced by repl (repl holds no group reference).
RECURSIVE SubFrom(_, _, _, _)
SubFrom(pat, repl, s, i) ==
    LET starts == {j \in i..Len(s) : MatchEnd(pat, s, j) > 0}
    IN  IF starts = {} THEN SubSeq(s, i, Len(s))
        ELSE LET b == Min(starts)
             IN  SubSeq(s, i, b - 1) \o repl \o SubFrom(pat, repl, s, MatchEnd(pat, s, b) + 1)

re_sub(pat, repl, s) == SubFrom(pat, repl, s, 1)

\* re.sub(r'(docker\s+run\s+)', r'\1' + ins, s, count=1): ins is put after
\* the first match, and s is returned unchanged when there is no match.
insert_after_docker_run(ins, s) ==
    LET starts == {i \in 1..Len(s) : DockerRunEnd(s, i) > 0}
    IN  IF starts = {} THEN s
        ELSE LET e == DockerRunEnd(s, Min(starts))
             IN  SubSeq(s, 1, e) \o ins \o SubSeq(s, e + 1, Len(s))

(***************************************************************************)
(* The rewrite passes.                                                     *)
(***************************************************************************)
\* fix_es_url: the first of the three patterns that matches anywhere is
\* substituted (the loop breaks after it); with no match the assignment
\* is inserted after "docker run".
fix_es_url(command) ==
    IF re_search("single_quoted", command)
    THEN re_sub("single_quoted", ES_URL_REPLACEMENT, command)
    ELSE IF re_search("double_quoted", command)
    THEN re_sub("double_quoted", ES_URL_REPLACEMENT, command)
    ELSE IF re_search("unquoted", command)
    THEN re_sub("unquoted", ES_URL_REPLACEMENT, command)
    ELSE insert_after_docker_run(ES_URL_INSERT, command)

\* ensure_host_network
ensure_host_network(command) ==
    IF re_search("network", command) \/ re_search("net", command)
    THEN re_sub("net", NETWORK_HOST, re_sub("network", NETWORK_HOST, command))
    ELSE insert_after_docker_run(NETWORK_HOST_INSERT, command)

(***************************************************************************)
(* Python's None and a present value.                                      *)
(***************************************************************************)
None == [some |-> FALSE, val |-> <<>>]

Some(v) == [some |-> TRUE, val |-> v]

\* `if x:` for an optional str: neither None nor the empty string
Truthy(x) == x.some /\ x.val # <<>>

\* extract_container_name: re.search(r'--name[=\s]+([^\s]+)', command).
\* [=\s]+ is greedy; when it runs to the end of the text the engine gives
\* characters back until the group can start, which it can on a "=".
NameGroupStart(s, i) ==
    IF ~HasAt(s, i, NAME_FLAG) THEN 0
    ELSE LET a == i + Len(NAME_FLAG)
             stops == {j \in a..Len(s) : ~(IsSpace(s[j]) \/ s[j] = "=")}
             r == IF stops = {} THEN Len(s) + 1 ELSE Min(stops)
             back == {j \in (a + 1)..Len(s) : s[j] = "="}
         IN  IF r = a THEN 0
             ELSE IF r <= Len(s) THEN r
             ELSE IF back = {} THEN 0 ELSE Max(back)

extract_container_name(command) ==
    LET starts == {i \in 1..Len(command) : NameGroupStart(command, i) > 0}
    IN  IF starts = {} THEN None
        ELSE LET g == NameGroupStart(command, Min(starts))
             IN  Some(SubSeq(command, g, NonSpaceRunEnd(command, g) - 1))

\* mark\s*([A-Za-z0-9+/=_-]+) at index i: the index of the first character
\* of the group, 0 when the pattern does not match at i.
KeyGroupStart(s, i, mark) ==
    IF ~HasAt(s, i, mark) THEN 0
    ELSE LET b == SpaceRunEnd(s, i + Len(mark))
         IN  IF b <= Len(s) /\ s[b] \in KeyChars THEN b ELSE 0

KeyRunEnd(s, i) ==
    LET stops == {j \in i..Len(s) : s[j] \notin KeyChars}
    IN  IF stops = {} THEN Len(s) + 1 ELSE Min(stops)

\* re.search(mark + r'\s*([A-Za-z0-9+/=_-]+)', content): group 1 of the
\* leftmost match, None without a match.
search_key(content, mark) ==
    LET starts == {i \in 1..Len(content) : KeyGroupStart(content, i, mark) > 0}
    IN  IF starts = {} THEN None
        ELSE LET g == KeyGroupStart(content, Min(starts), mark)
             IN  Some(SubSeq(content, g, KeyRunEnd(content, g) - 1))

\* get_api_key_from_log: log is the state of es_startup.log.  A missing
\* file gives None, a file that cannot be read raises inside the try and
\* gives None, otherwise the pattern with the glyph is tried before the
\* pattern without it.
get_api_key_from_log(log) ==
    IF ~log.exists \/ ~log.readable THEN None
    ELSE IF search_key(log.content, EMOJI_API_KEY_MARK).some
    THEN search_key(log.content, EMOJI_API_KEY_MARK)
    ELSE search_key(log.content, API_KEY_MARK)

\* A variant of confirm_execution that takes every answer other than n/no
\* for a yes.
confirm_unless_no(answer) ==
    LET r == lower(strip(answer))
    IN  IF r \in {N, NO} THEN "False" ELSE "True"

\* confirm_execution, one turn of its loop: the answer is stripped and
\* lowered; "True"/"False" is the value returned, "again" another prompt.
confirm_execution(answer) ==
    LET r == lower(strip(answer))
    IN  IF r \in {Y, YES} THEN "True"
        ELSE IF r \in {N, NO} THEN "False"
        ELSE "again"

\* A variant of no_command_entered that tests the text without strip().
no_text_entered(text) == text = <<>>

\* main, line 256: `not docker_command.strip()`
no_command_entered(text) == strip(text) = <<>>

(***************************************************************************)
(* Inputs of the interactive run.                                          *)
(***************************************************************************)
\* Lines the user types at read_multiline_input (none holds a newline).
InputLines == {LineBlank, LinePlain, LineKey, LineTwoKeys, LineNested}

\* States of the file es_startup.log.
LogStates ==
    {[exists |-> FALSE, readable |-> FALSE, content |-> <<>>],
     [exists |-> TRUE, readable |-> FALSE, content |-> <<>>]}
    \cup {[exists |-> TRUE, readable |-> TRUE, content |-> c] :
            c \in {LogGlyph, LogPlain, LogBoth, LogNoKey}}

\* Values of os.environ.get('ES_LOCAL_API_KEY').
EnvValues == {None, Some(<<>>), Some(KeyE1), Some(PLACEHOLDER)}

\* Values typed at the getpass prompt.
PromptValues == {<<>>, KeyP1, KeyId}

\* Answers typed at the confirmation prompt.
Answers == {AnsY, AnsYes, AnsN, AnsNo, AnsEmpty, AnsMaybe, AnsYy}

\* Exit codes of the multipass commands.
ExitCodes == {0, 1, 2}

\* The commands given to the rewrite passes: a head, with or without the
\* text "docker run", followed by up to MaxFrags options.
Heads == {FragDockerRun, FragContainerRun}

Fragments == {FragSingle, FragDouble, FragUnquoted, FragNetwork, FragNet, FragNetworkEq, FragKey, FragImage}

RECURSIVE Concats(_)
Concats(n) == IF n = 0 THEN {<<>>} ELSE {f \o c : f \in Fragments, c \in Concats(n - 1)}

NormCommands == {h \o t : h \in Heads, t \in UNION {Concats(n) : n \in 0..MaxFrags}}

NormCreds == {KeyId, KeyE1}

(***************************************************************************)
(* State.                                                                  *)
(***************************************************************************)
VARIABLES
    pc,              \* where the process is: "read", "get_api_key_log",
                     \* "get_api_key_env", "get_api_key_prompt", "confirm",
                     \* "write", "transfer", "exec", "remove", "done"
    lines,           \* read_multiline_input: lines
    docker_command,  \* main: docker_command
    consulted,       \* the credential sources get_api_key has read, in order
    log_result,      \* what get_api_key_from_log returned
    env_value,       \* what os.environ.get returned
    prompt_value,    \* what getpass returned
    api_key,         \* what get_api_key returned
    answer,          \* the last answer read by confirm_execution
    reprompts,       \* how often confirm_execution asked again
    container_name,  \* execute_command: container_name
    command,         \* execute_command: command, after the rewrites and strip
    file,            \* the local file autoops_docker_run.sh
    ops,             \* the operations on the file and the VM, in order
    result,          \* what execute_command returned: "none", "True", "False"
    exit_code,       \* exit status of the process, -1 while it runs
    uncaught,        \* the exception that left main, "none" without one
    reported,        \* the error reports printed, in order
    norm_round,      \* rewrite passes: the application under way (1 or 2)
    norm_done,       \* rewrite passes: the last pass applied
    norm_input,      \* rewrite passes: the command they started from
    norm_cred,       \* rewrite passes: the resolved credential
    norm_cmd,        \* rewrite passes: the current text
    norm_once        \* rewrite passes: the text after the first application

main_vars == <<pc, lines, docker_command, consulted, log_result, env_value, prompt_value, api_key, answer, reprompts, container_name, command, file, ops, result, exit_code, uncaught, reported>>

norm_vars == <<norm_round, norm_done, norm_input, norm_cred, norm_cmd, norm_once>>

vars == <<pc, lines, docker_command, consulted, log_result, env_value, prompt_value, api_key, answer, reprompts, container_name, command, file, ops, result, exit_code, uncaught, reported, norm_round, norm_done, norm_input, norm_cred, norm_cmd, norm_once>>

\* The state before main starts.  The script file of an earlier failed run
\* may still be there (it is kept for debugging).
MainStart ==
    /\ lines = <<>>
    /\ docker_command = <<>>
    /\ consulted = <<>>
    /\ log_result = None
    /\ env_value = None
    /\ prompt_value = None
    /\ api_key = None
    /\ answer = <<>>
    /\ reprompts = 0
    /\ container_name = None
    /\ command = <<>>
    /\ file \in {[exists |-> e, fresh |-> FALSE, name |-> None, body |-> <<>>] : e \in BOOLEAN}
    /\ ops = <<>>
    /\ result = "none"
    /\ exit_code = -1
    /\ uncaught = "none"
    /\ reported = <<>>

NormOff ==
    /\ norm_round = 0
    /\ norm_done = "off"
    /\ norm_input = <<>>
    /\ norm_cred = <<>>
    /\ norm_cmd = <<>>
    /\ norm_once = <<>>

Init ==
    /\ pc = "read"
    /\ MainStart
    /\ NormOff

(***************************************************************************)
(* main: read_multiline_input and the check for an empty command.          *)
(***************************************************************************)
\* read_multiline_input: a non-empty line is appended.
ReadLine ==
    /\ pc = "read"
    /\ Len(lines) < MaxLines
    /\ \E l \in InputLines : lines' = Append(lines, l)
    /\ UNCHANGED <<pc, docker_command, consulted, log_result, env_value, prompt_value, api_key, answer, reprompts, container_name, command, file, ops, result, exit_code, uncaught, reported>>
    /\ UNCHANGED norm_vars

\* The empty line ends the input and the joined text is blank: main prints
\* the error and calls sys.exit(1).
NoCommandEntered ==
    /\ pc = "read"
    /\ no_command_entered(join(lines))
    /\ docker_command' = join(lines)
    /\ reported' = Append(reported, "No command entered")
    /\ exit_code' = 1
    /\ pc' = "done"
    /\ UNCHANGED <<lines, consulted, log_result, env_value, prompt_value, api_key, answer, reprompts, container_name, command, file, ops, result, uncaught>>
    /\ UNCHANGED norm_vars

\* The empty line ends the input and there is a command: main goes on to
\* get_api_key when the placeholder is in it, to the confirmation otherwise.
CommandReceived ==
    /\ pc = "read"
    /\ ~no_command_entered(join(lines))
    /\ docker_command' = join(lines)
    /\ pc' = IF Contains(join(lines), PLACEHOLDER) THEN "get_api_key_log" ELSE "confirm"
    /\ UNCHANGED <<lines, consulted, log_result, env_value, prompt_value, api_key, answer, reprompts, container_name, command, file, ops, result, exit_code, uncaught, reported>>
    /\ UNCHANGED norm_vars

(***************************************************************************)
(* get_api_key and the substitution in main.                               *)
(***************************************************************************)
\* get_api_key returns key: main replaces the placeholder and goes on to
\* the confirmation.
ReturnKey(key) ==
    /\ api_key' = Some(key)
    /\ docker_command' = replace(docker_command, PLACEHOLDER, key)
    /\ pc' = "confirm"

\* A variant of ReadLog that falls through to the environment variable
\* even when the log file yields a key.
ReadLogFallThrough ==
    /\ pc = "get_api_key_log"
    /\ \E log \in LogStates :
         /\ log_result' = get_api_key_from_log(log)
         /\ consulted' = Append(consulted, "log")
         /\ pc' = "get_api_key_env"
         /\ UNCHANGED <<api_key, docker_command>>
    /\ UNCHANGED <<lines, env_value, prompt_value, answer, reprompts, container_name, command, file, ops, result, exit_code, uncaught, reported>>
    /\ UNCHANGED norm_vars

\* Priority 1: es_startup.log
ReadLog ==
    /\ pc = "get_api_key_log"
    /\ \E log \in LogStates :
         /\ log_result' = get_api_key_from_log(log)
         /\ consulted' = Append(consulted, "log")
         /\ IF Truthy(get_api_key_from_log(log))
            THEN ReturnKey(get_api_key_from_log(log).val)
            ELSE /\ pc' = "get_api_key_env"
                 /\ UNCHANGED <<api_key, docker_command>>
    /\ UNCHANGED <<lines, env_value, prompt_value, answer, reprompts, container_name, command, file, ops, result, exit_code, uncaught, reported>>
    /\ UNCHANGED norm_vars

\* Priority 2: $ES_LOCAL_API_KEY
ReadEnv ==
    /\ pc = "get_api_key_env"
    /\ \E v \in EnvValues :
         /\ env_value' = v
         /\ consulted' = Append(consulted, "env")
         /\ IF Truthy(v)
            THEN ReturnKey(v.val)
            ELSE /\ pc' = "get_api_key_prompt"
                 /\ UNCHANGED <<api_key, docker_command>>
    /\ UNCHANGED <<lines, log_result, prompt_value, answer, reprompts, container_name, command, file, ops, result, exit_code, uncaught, reported>>
    /\ UNCHANGED norm_vars

\* Priority 3: getpass.  An empty value raises ValueError; main has no
\* handler around get_api_key, so the exception leaves main and the
\* interpreter ends the process with a traceback and status 1.
Prompt ==
    /\ pc = "get_api_key_prompt"
    /\ \E v \in PromptValues :
         /\ prompt_value' = Some(v)
         /\ consulted' = Append(consulted, "prompt")
         /\ IF v = <<>>
            THEN /\ uncaught' = "ValueError"
                 /\ exit_code' = 1
                 /\ pc' = "done"
                 /\ UNCHANGED <<api_key, docker_command>>
            ELSE /\ ReturnKey(v)
                 /\ UNCHANGED <<uncaught, exit_code>>
    /\ UNCHANGED <<lines, log_result, env_value, answer, reprompts, container_name, command, file, ops, result, reported>>
    /\ UNCHANGED norm_vars

(***************************************************************************)
(* confirm_execution and the start of execute_command.                     *)
(***************************************************************************)
\* The answer is yes: execute_command extracts the container name, applies
\* fix_es_url and ensure_host_network and strips the text.
ConfirmYes ==
    /\ pc = "confirm"
    /\ \E a \in Answers :
         /\ confirm_execution(a) = "True"
         /\ answer' = a
    /\ container_name' = extract_container_name(docker_command)
    /\ command' = strip(ensure_host_network(fix_es_url(docker_command)))
    /\ pc' = "write"
    /\ UNCHANGED <<lines, docker_command, consulted, log_result, env_value, prompt_value, api_key, reprompts, file, ops, result, exit_code, uncaught, reported>>
    /\ UNCHANGED norm_vars

\* The answer is no: main prints the cancellation and calls sys.exit(0).
ConfirmNo ==
    /\ pc = "confirm"
    /\ \E a \in Answers :
         /\ confirm_execution(a) = "False"
         /\ answer' = a
    /\ reported' = Append(reported, "Command execution cancelled by user")
    /\ exit_code' = 0
    /\ pc' = "done"
    /\ UNCHANGED <<lines, docker_command, consulted, log_result, env_value, prompt_value, api_key, reprompts, container_name, command, file, ops, result, uncaught>>
    /\ UNCHANGED norm_vars

\* Any other answer: confirm_execution asks again.
ConfirmAgain ==
    /\ pc = "confirm"
    /\ reprompts < MaxInvalid
    /\ \E a \in Answers :
         /\ confirm_execution(a) = "again"
         /\ answer' = a
    /\ reprompts' = reprompts + 1
    /\ UNCHANGED <<pc, lines, docker_command, consulted, log_result, env_value, prompt_value, api_key, container_name, command, file, ops, result, exit_code, uncaught, reported>>
    /\ UNCHANGED norm_vars

(***************************************************************************)
(* execute_command: the script file and the two remote operations.         *)
(***************************************************************************)
\* execute_command returns res and main, which ignores the value, ends
\* normally: the process exits with status 0.
Return(res) ==
    /\ result' = res
    /\ exit_code' = 0
    /\ pc' = "done"

\* The handler of subprocess.CalledProcessError (lines 170-180).
RemoteFailure ==
    /\ reported' = Append(reported, "Command execution failed")
    /\ Return("False")

\* The handler of any other exception (lines 181-185).
LocalFailure ==
    /\ reported' = Append(reported, "Error")
    /\ Return("False")

\* The file as lines 100-129 write it.
Written == [exists |-> TRUE, fresh |-> TRUE, name |-> container_name, body |-> command]

\* Step 1: open, write and chmod.  open may fail (the file is left as it
\* was) and chmod may fail (the file is written); both raise into the
\* generic handler.
WriteScript ==
    /\ pc = "write"
    /\ \E outcome \in {"ok", "open fails", "chmod fails"} :
         /\ file' = IF outcome = "open fails" THEN file ELSE Written
         /\ ops' = IF outcome = "open fails" THEN ops ELSE Append(ops, [op |-> "write", rc |-> 0])
         /\ IF outcome = "ok"
            THEN /\ pc' = "transfer"
                 /\ UNCHANGED <<result, exit_code, reported>>
            ELSE LocalFailure
    /\ UNCHANGED <<lines, docker_command, consulted, log_result, env_value, prompt_value, api_key, answer, reprompts, container_name, command, uncaught>>
    /\ UNCHANGED norm_vars

\* A variant of Transfer without check=True: the exit code is ignored.
TransferUnchecked ==
    /\ pc = "transfer"
    /\ \E rc \in ExitCodes : ops' = Append(ops, [op |-> "transfer", rc |-> rc])
    /\ pc' = "exec"
    /\ UNCHANGED <<lines, docker_command, consulted, log_result, env_value, prompt_value, api_key, answer, reprompts, container_name, command, file, result, exit_code, uncaught, reported>>
    /\ UNCHANGED norm_vars

\* Step 2: multipass transfer, with check=True.
Transfer ==
    /\ pc = "transfer"
    /\ \E rc \in ExitCodes :
         /\ ops' = Append(ops, [op |-> "transfer", rc |-> rc])
         /\ IF rc = 0
            THEN /\ pc' = "exec"
                 /\ UNCHANGED <<result, exit_code, reported>>
            ELSE RemoteFailure
    /\ UNCHANGED <<lines, docker_command, consulted, log_result, env_value, prompt_value, api_key, answer, reprompts, container_name, command, file, uncaught>>
    /\ UNCHANGED norm_vars

\* A variant of Exec whose failure path cleans the local file up.
ExecCleaningUp ==
    /\ pc = "exec"
    /\ \E rc \in ExitCodes :
         /\ ops' = Append(ops, [op |-> "exec", rc |-> rc])
         /\ IF rc = 0
            THEN /\ pc' = "remove"
                 /\ UNCHANGED <<file, result, exit_code, reported>>
            ELSE /\ file' = [file EXCEPT !.exists = FALSE]
                 /\ RemoteFailure
    /\ UNCHANGED <<lines, docker_command, consulted, log_result, env_value, prompt_value, api_key, answer, reprompts, container_name, command, uncaught>>
    /\ UNCHANGED norm_vars

\* Step 3: multipass exec, with check=True.
Exec ==
    /\ pc = "exec"
    /\ \E rc \in ExitCodes :
         /\ ops' = Append(ops, [op |-> "exec", rc |-> rc])
         /\ IF rc = 0
            THEN /\ pc' = "remove"
                 /\ UNCHANGED <<result, exit_code, reported>>
            ELSE RemoteFailure
    /\ UNCHANGED <<lines, docker_command, consulted, log_result, env_value, prompt_value, api_key, answer, reprompts, container_name, command, file, uncaught>>
    /\ UNCHANGED norm_vars

\* os.remove(script_file) and return True; when os.remove raises, the
\* generic handler returns False and the file stays.
RemoveScript ==
    /\ pc = "remove"
    /\ \E removed \in BOOLEAN :
         IF removed
         THEN /\ file' = [file EXCEPT !.exists = FALSE]
              /\ ops' = Append(ops, [op |-> "remove", rc |-> 0])
              /\ Return("True")
              /\ UNCHANGED reported
         ELSE /\ LocalFailure
              /\ UNCHANGED <<file, ops>>
    /\ UNCHANGED <<lines, docker_command, consulted, log_result, env_value, prompt_value, api_key, answer, reprompts, container_name, command, uncaught>>
    /\ UNCHANGED norm_vars

Next ==
    \/ ReadLine
    \/ NoCommandEntered
    \/ CommandReceived
    \/ ReadLog
    \/ ReadEnv
    \/ Prompt
    \/ ConfirmYes
    \/ ConfirmNo
    \/ ConfirmAgain
    \/ WriteScript
    \/ Transfer
    \/ Exec
    \/ RemoveScript

Spec == Init /\ [][Next]_vars

(***************************************************************************)
(* The three rewrite passes as functions of the command: they are applied  *)
(* in the order of the program (substitution in main, then fix_es_url and  *)
(* ensure_host_network in execute_command), twice over.                    *)
(***************************************************************************)
NormInit ==
    /\ pc = "off"
    /\ MainStart
    /\ file.exists = FALSE
    /\ norm_round = 1
    /\ norm_done = "none"
    /\ norm_input \in NormCommands
    /\ norm_cred \in NormCreds
    /\ norm_cmd = norm_input
    /\ norm_once = <<>>

\* main, lines 264-267
substitute(text, key) ==
    IF Contains(text, PLACEHOLDER) THEN replace(text, PLACEHOLDER, key) ELSE text

NormSubstitute ==
    /\ norm_round \in {1, 2}
    /\ norm_done = "none"
    /\ norm_cmd' = substitute(norm_cmd, norm_cred)
    /\ norm_done' = "substitute"
    /\ UNCHANGED <<norm_round, norm_input, norm_cred, norm_once>>
    /\ UNCHANGED main_vars

NormFixUrl ==
    /\ norm_done = "substitute"
    /\ norm_cmd' = fix_es_url(norm_cmd)
    /\ norm_done' = "fix_es_url"
    /\ UNCHANGED <<norm_round, norm_input, norm_cred, norm_once>>
    /\ UNCHANGED main_vars

NormHostNetwork ==
    /\ norm_done = "fix_es_url"
    /\ norm_cmd' = ensure_host_network(norm_cmd)
    /\ norm_done' = "ensure_host_network"
    /\ UNCHANGED <<norm_round, norm_input, norm_cred, norm_once>>
    /\ UNCHANGED main_vars

\* The output of the first application becomes the input of the second.
NormAgain ==
    /\ norm_round = 1
    /\ norm_done = "ensure_host_network"
    /\ norm_once' = norm_cmd
    /\ norm_round' = 2
    /\ norm_done' = "none"
    /\ UNCHANGED <<norm_input, norm_cred, norm_cmd>>
    /\ UNCHANGED main_vars

NormNext ==
    \/ NormSubstitute
    \/ NormFixUrl
    \/ NormHostNetwork
    \/ NormAgain

SpecNorm == NormInit /\ [][NormNext]_vars

(***************************************************************************)
(* Properties.                                                             *)
(***************************************************************************)
\* How many operations of a kind the run has performed.
NumOps(kind) == Cardinality({k \in 1..Len(ops) : ops[k].op = kind})

\* How often lit occurs in text.
Count(text, lit) == Cardinality({i \in 1..Len(text) : HasAt(text, i, lit)})

HasValue(x) == x.some /\ x.val # <<>>

Normalized(a) == lower(strip(a))

\* A remote operation of the run returned a non-zero exit code.
RemoteFailed == \E k \in 1..Len(ops) : ops[k].op \in {"transfer", "exec"} /\ ops[k].rc # 0

\* C1: the local script file is deleted only after the transfer and the
\* execution have both succeeded, and at most once; when either returns a
\* non-zero exit code the file exists when execute_command returns and
\* nothing was deleted.
C1_DeletedOnlyAfterSuccess ==
    /\ NumOps("remove") <= 1
    /\ \A k \in 1..Len(ops) :
         ops[k].op = "remove" =>
           \E i, j \in 1..(k - 1) :
             /\ i < j
             /\ ops[i] = [op |-> "transfer", rc |-> 0]
             /\ ops[j] = [op |-> "exec", rc |-> 0]
    /\ (file.fresh /\ ~file.exists) => NumOps("remove") = 1
    /\ (RemoteFailed /\ result # "none") => (file.exists /\ file.fresh /\ NumOps("remove") = 0)

C1_Witness ==
    /\ result = "False"
    /\ \E k \in 1..Len(ops) : ops[k].op = "exec" /\ ops[k].rc # 0
    /\ file.exists

\* C2: transfer then execute, each at most once and never retried; the
\* execution is invoked only after a transfer that returned 0, and a
\* non-zero exit code of either is the last operation of the run and makes
\* execute_command return False.
C2_TransferThenExecute ==
    /\ NumOps("transfer") <= 1
    /\ NumOps("exec") <= 1
    /\ \A k \in 1..Len(ops) :
         ops[k].op = "exec" => (k > 1 /\ ops[k - 1] = [op |-> "transfer", rc |-> 0])
    /\ \A k \in 1..Len(ops) :
         (ops[k].op \in {"transfer", "exec"} /\ ops[k].rc # 0) =>
           (k = Len(ops) /\ result = "False" /\ pc = "done")

C2_Witness ==
    /\ pc = "done"
    /\ result = "False"
    /\ Len(ops) = 2
    /\ ops[2].op = "transfer"
    /\ ops[2].rc # 0

\* C3: when the entered text is empty after joining and stripping, main
\* reports the error and exits with status 1, and no credential source is
\* read, no script is written and no remote operation is attempted.
C3_EmptyCommandExits ==
    (pc # "read" /\ strip(join(lines)) = <<>>) =>
        /\ pc = "done"
        /\ exit_code = 1
        /\ reported = <<"No command entered">>
        /\ uncaught = "none"
        /\ consulted = <<>>
        /\ api_key = None
        /\ ops = <<>>
        /\ ~file.fresh
        /\ result = "none"

C3_Witness ==
    /\ pc = "done"
    /\ exit_code = 1
    /\ lines = <<LineBlank>>

\* The original statement of C4: after fix_es_url the text holds the
\* assignment of AUTOOPS_ES_URL exactly once, with the fixed value.
C4_AssignedExactlyOnce ==
    norm_done = "fix_es_url" =>
        /\ Count(norm_cmd, ES_URL_EQ) = 1
        /\ Count(norm_cmd, ES_URL_REPLACEMENT) = 1

\* The original statement of C5: after ensure_host_network the text holds
\* "--network host" exactly once and no other network flag.
C5_HostNetworkExactlyOnce ==
    norm_done = "ensure_host_network" =>
        /\ Count(norm_cmd, NETWORK_HOST) = 1
        /\ Count(norm_cmd, NET_FLAG) = 1

\* The places of the placeholder in a text.  The token cannot overlap
\* itself, so these are the occurrences str.replace finds.
Occurrences(text) == {i \in 1..Len(text) : HasAt(text, i, PLACEHOLDER)}

\* out is text with key in the place of every occurrence of the placeholder
\* and every other character kept.
EveryOccurrenceReplaced(text, out, key) ==
    LET occ == Occurrences(text)
        grow == Len(key) - Len(PLACEHOLDER)
        shift(i) == Cardinality({h \in occ : h < i}) * grow
        inside(i) == \E h \in occ : h <= i /\ i < h + Len(PLACEHOLDER)
    IN  /\ Len(out) = Len(text) + Cardinality(occ) * grow
        /\ \A h \in occ : HasAt(out, h + shift(h), key)
        /\ \A i \in 1..Len(text) : ~inside(i) => out[i + shift(i)] = text[i]

SharesNoCharacter(key, token) ==
    \A i \in 1..Len(key) : \A j \in 1..Len(token) : key[i] # token[j]

\* A text without the placeholder is left as entered and no credential
\* source is read.
NoPlaceholderNoLookup ==
    (pc # "read" /\ ~Contains(join(lines), PLACEHOLDER)) =>
        /\ docker_command = join(lines)
        /\ consulted = <<>>
        /\ api_key = None

\* The original statement of C6: after the substitution the placeholder is
\* gone, whatever the resolved credential.
C6_PlaceholderGone ==
    /\ NoPlaceholderNoLookup
    /\ api_key.some =>
         /\ EveryOccurrenceReplaced(join(lines), docker_command, api_key.val)
         /\ ~Contains(docker_command, PLACEHOLDER)

\* C6, amended: every occurrence of the placeholder in the entered text is
\* replaced by the one resolved credential; the result is free of the
\* placeholder when the credential shares no character with it; a text
\* without the placeholder is left as entered and no credential source is
\* read.
C6_OccurrencesReplaced ==
    /\ NoPlaceholderNoLookup
    /\ api_key.some =>
         /\ Contains(join(lines), PLACEHOLDER)
         /\ api_key.val # <<>>
         /\ EveryOccurrenceReplaced(join(lines), docker_command, api_key.val)
         /\ SharesNoCharacter(api_key.val, PLACEHOLDER) => ~Contains(docker_command, PLACEHOLDER)

C6_Witness ==
    /\ pc = "confirm"
    /\ api_key.some
    /\ SharesNoCharacter(api_key.val, PLACEHOLDER)
    /\ Cardinality(Occurrences(join(lines))) >= 2

\* The original statement of C7: the three passes applied a second time
\* give the text of the first application.
C7_Idempotent ==
    (norm_round = 2 /\ norm_done = "ensure_host_network") => norm_cmd = norm_once

\* C8: get_api_key returns the value of the log file whenever the file
\* yields one, the value of the environment variable only when the log
\* yields none, and prompts only when both yield none (an empty
\* environment value counts as none); an empty prompted value raises.
C8_CredentialPriority ==
    /\ HasValue(log_result) => (api_key = log_result /\ consulted = <<"log">>)
    /\ (Len(consulted) >= 2) =>
         (consulted[1] = "log" /\ consulted[2] = "env" /\ ~HasValue(log_result))
    /\ HasValue(env_value) => (api_key = env_value /\ consulted = <<"log", "env">>)
    /\ (Len(consulted) >= 3) =>
         (consulted = <<"log", "env", "prompt">> /\ ~HasValue(env_value))
    /\ prompt_value.some =>
         /\ consulted = <<"log", "env", "prompt">>
         /\ IF prompt_value.val = <<>>
            THEN api_key = None /\ uncaught = "ValueError"
            ELSE api_key = prompt_value
    /\ api_key.some => (HasValue(log_result) \/ HasValue(env_value) \/ HasValue(prompt_value))

C8_Witness ==
    /\ consulted = <<"log", "env", "prompt">>
    /\ env_value = Some(<<>>)
    /\ api_key = Some(KeyP1)

\* The original statement of C9: no exception leaves main; an empty
\* credential ends the run before a script is written or a remote
\* operation attempted; a remote failure ends the process with status 0.
C9_NoExceptionEscapes ==
    /\ uncaught = "none"
    /\ prompt_value = Some(<<>>) => (pc = "done" /\ ops = <<>> /\ ~file.fresh)
    /\ RemoteFailed => (exit_code = 0 /\ reported = <<"Command execution failed">>)

\* C10: the script is written and the remote operations are attempted
\* only after an answer of y or yes; after n or no the process exits with
\* status 0 and has written and attempted nothing.
ConfirmationGates ==
    /\ (pc \in {"write", "transfer", "exec", "remove"} \/ ops # <<>> \/ file.fresh \/ result # "none")
         => Normalized(answer) \in {Y, YES}
    /\ Normalized(answer) \in {N, NO}
         => (pc = "done" /\ exit_code = 0 /\ ops = <<>> /\ ~file.fresh /\ result = "none")

\* C10: any other answer changes nothing but the count of prompts, and the
\* process asks again.
InvalidAnswerAsksAgain ==
    (pc = "confirm" /\ Normalized(answer') \notin {Y, YES, N, NO}) =>
        /\ pc' = "confirm"
        /\ UNCHANGED <<lines, docker_command, consulted, api_key, container_name, command, file, ops, result, exit_code, uncaught, reported>>

\* C10: confirmation gates all side effects: the script is written and the
\* remote operations attempted only after y or yes, n or no exits with
\* status 0 and nothing done, and any other answer only causes another
\* prompt.
C10_ConfirmationGatesSideEffects == [](ConfirmationGates) /\ [][InvalidAnswerAsksAgain]_vars

C10_Witness ==
    /\ pc = "transfer"
    /\ reprompts >= 1
    /\ answer = AnsYes
    /\ file.fresh

====
